---- MODULE Spec2Model ----
(***************************************************************************)
(* Model of the Hatch terminal chat front-end:                             *)
(*   - runHatch (src/src/agent/hatch.ts): the async generator that turns   *)
(*     the items of the SDK stream into HatchEvents;                       *)
(*   - App.handleSubmit (src/src/components/App.tsx): the handler that     *)
(*     consumes those events and updates the React state of App;           *)
(*   - truncate and formatToolDisplay (App.tsx): the pure helpers.         *)
(*                                                                         *)
(* Strings are sequences of one-character strings, so that length, slice   *)
(* and concatenation are those of the code.  An optional value (a field    *)
(* that may be undefined, a state that may be null) is None or Some(v).    *)
(*                                                                         *)
(* React semantics: the state setters act on the component state (the      *)
(* variables below), and every step is followed by a render.  A call of    *)
(* handleSubmit is made on the handler of the latest render, so its guard  *)
(* reads the current isProcessing; the identifiers streamingText and       *)
(* sessionId read later inside that call, across its awaits, are still the *)
(* constants of the render in which the call was made, kept here in the    *)
(* call's `closure` record.                                                *)
(***************************************************************************)
EXTENDS Integers, Sequences, FiniteSets, TLC

VARIABLES
    input,          \* useState('')                      App.tsx:65
    messages,       \* useState<DisplayMessage[]>([])    App.tsx:66
    sessionId,      \* useState<string | undefined>()    App.tsx:67
    isProcessing,   \* useState(false)                   App.tsx:68
    streamingText,  \* useState('')                      App.tsx:69
    currentTool,    \* useState<string | null>(null)     App.tsx:70
    toolInput,      \* useState('')                      App.tsx:71
    runs,           \* the calls of handleSubmit that are inside their for-await loop; each
                    \* keeps in `tail` the events its stream delivered from the first
                    \* terminal event (done, error) on
    steps,          \* number of inputs so far: key events and SDK items (at most MaxSteps)
    last,           \* the operation that produced this state: its name, the event it
                    \* handled, and the in-progress fields it found
    tstr,           \* truncate harness: the current string
    tcount,         \* truncate harness: how many times truncate was applied
    fcall,          \* formatToolDisplay harness: the arguments (name, input)
    fout            \* formatToolDisplay harness: the value returned, once called

appState == <<input, messages, sessionId, isProcessing, streamingText, currentTool, toolInput>>
tvars == <<tstr, tcount>>
vars == <<input, messages, sessionId, isProcessing, streamingText, currentTool, toolInput,
          runs, steps, last, tstr, tcount, fcall, fout>>

-----------------------------------------------------------------------------
(* Bound of the model: the number of inputs (key events in the text input, calls *)
(* of handleSubmit, items of the SDK stream) over the whole run.                 *)

MaxSteps == 4

-----------------------------------------------------------------------------
(* Optional values and strings *)

None == <<>>
Some(v) == <<v>>

\* JavaScript truthiness of an optional string: undefined and '' are falsy.
Truthy(o) == o # None /\ o[1] # <<>>

\* The string of n characters whose i-th character is the digit i mod 10.
Digits == <<"0", "1", "2", "3", "4", "5", "6", "7", "8", "9">>
Long(n) == [i \in 1..n |-> Digits[(i % 10) + 1]]

IsPrefix(s, t) == Len(s) <= Len(t) /\ SubSeq(t, 1, Len(s)) = s

-----------------------------------------------------------------------------
(* Pure helpers of App.tsx *)

TruncateLimit == 800

\* '\n... (truncated)'
Marker == <<"\n", ".", ".", ".", " ", "(", "t", "r", "u", "n", "c", "a", "t", "e", "d", ")">>

\* Faulty variants of truncate: the limit itself cut, and the slice off by one.
truncateStrict(str, maxLen) ==
    IF Len(str) < maxLen THEN str ELSE SubSeq(str, 1, maxLen) \o Marker

truncateSkipFirst(str, maxLen) ==
    IF Len(str) <= maxLen THEN str ELSE SubSeq(str, 2, maxLen) \o Marker

\* function truncate(str, maxLen)
truncate(str, maxLen) ==
    IF Len(str) <= maxLen THEN str ELSE SubSeq(str, 1, maxLen) \o Marker

\* String.prototype.trim on the whitespace the model's prompts use.
Whitespace == {" ", "\n", "\t"}

RECURSIVE trimStart(_)
trimStart(s) == IF s # <<>> /\ Head(s) \in Whitespace THEN trimStart(Tail(s)) ELSE s

RECURSIVE trimEnd(_)
trimEnd(s) ==
    IF s # <<>> /\ s[Len(s)] \in Whitespace THEN trimEnd(SubSeq(s, 1, Len(s) - 1)) ELSE s

\* A faulty trim that keeps the whitespace at the end.
trimLeading(s) == trimStart(s)

trim(s) == trimEnd(trimStart(s))

\* A faulty lower-casing that leaves every character as it is.
toLowerCaseNone(s) == s

\* String.prototype.toLowerCase on ASCII letters.
UpperLetters == <<"A", "B", "C", "D", "E", "F", "G", "H", "I", "J", "K", "L", "M",
                  "N", "O", "P", "Q", "R", "S", "T", "U", "V", "W", "X", "Y", "Z">>
LowerLetters == <<"a", "b", "c", "d", "e", "f", "g", "h", "i", "j", "k", "l", "m",
                  "n", "o", "p", "q", "r", "s", "t", "u", "v", "w", "x", "y", "z">>

toLowerChar(c) ==
    IF \E k \in 1..26 : UpperLetters[k] = c
    THEN LowerLetters[CHOOSE k \in 1..26 : UpperLetters[k] = c]
    ELSE c

toLowerCase(s) == [i \in 1..Len(s) |-> toLowerChar(s[i])]

startsWith(s, p) == Len(p) <= Len(s) /\ SubSeq(s, 1, Len(p)) = p

\* Position of the first occurrence of p in s, 0 when there is none.
indexOf(s, p) ==
    LET At(i) == SubSeq(s, i, i + Len(p) - 1) = p
        Hits == {i \in 1..(Len(s) - Len(p) + 1) : At(i)}
    IN IF Hits = {} THEN 0 ELSE CHOOSE i \in Hits : \A j \in Hits : i <= j

\* s.replace(p, r) with a string pattern: the first occurrence only.
replaceFirst(s, p, r) ==
    LET i == indexOf(s, p)
    IN IF i = 0 THEN s
       ELSE SubSeq(s, 1, i - 1) \o r \o SubSeq(s, i + Len(p), Len(s))

\* path.split(/[/\\]/).pop() || path
lastSegment(path) ==
    LET Seps == {i \in 1..Len(path) : path[i] \in {"/", "\\"}}
        cut == IF Seps = {} THEN 0 ELSE CHOOSE i \in Seps : \A j \in Seps : j <= i
        seg == SubSeq(path, cut + 1, Len(path))
    IN IF seg # <<>> THEN seg ELSE path

\* String(input.k || ''): the tool input is a function from keys to strings.
field(inp, k) == IF k \in DOMAIN inp THEN inp[k] ELSE <<>>

\* String(input.a || input.b || '')
field2(inp, a, b) == IF field(inp, a) # <<>> THEN field(inp, a) ELSE field(inp, b)

\* new URL(url).hostname for the URLs of the form http(s)://host[/path]; None
\* stands for the TypeError that new URL raises on anything else.
hostname(url) ==
    LET http == <<"h", "t", "t", "p", ":", "/", "/">>
        https == <<"h", "t", "t", "p", "s", ":", "/", "/">>
        rest == IF startsWith(url, https) THEN SubSeq(url, 9, Len(url))
                ELSE IF startsWith(url, http) THEN SubSeq(url, 8, Len(url))
                ELSE <<>>
        slash == indexOf(rest, <<"/">>)
        host == IF slash = 0 THEN rest ELSE SubSeq(rest, 1, slash - 1)
    IN IF host = <<>> THEN None ELSE Some(toLowerCase(host))

Str_bash == <<"b", "a", "s", "h">>
Str_write == <<"w", "r", "i", "t", "e">>
Str_edit == <<"e", "d", "i", "t">>
Str_multiedit == <<"m", "u", "l", "t", "i", "e", "d", "i", "t">>
Str_read == <<"r", "e", "a", "d">>
Str_glob == <<"g", "l", "o", "b">>
Str_grep == <<"g", "r", "e", "p">>
Str_ls == <<"l", "s">>
Str_websearch == <<"w", "e", "b", "s", "e", "a", "r", "c", "h">>
Str_webfetch == <<"w", "e", "b", "f", "e", "t", "c", "h">>
Str_todowrite == <<"t", "o", "d", "o", "w", "r", "i", "t", "e">>
Str_todoread == <<"t", "o", "d", "o", "r", "e", "a", "d">>
Str_task == <<"t", "a", "s", "k">>
Str_python == <<"p", "y", "t", "h", "o", "n">>
Str_pipInstall == <<"p", "i", "p", " ", "i", "n", "s", "t", "a", "l", "l">>
Str_undefined == <<"u", "n", "d", "e", "f", "i", "n", "e", "d">>

\* The names formatToolDisplay compares n with.
KnownToolNames ==
    {Str_bash, Str_write, Str_edit, Str_multiedit, Str_read, Str_glob, Str_grep, Str_ls,
     Str_websearch, Str_webfetch, Str_todowrite, Str_todoread, Str_task}

\* function formatToolDisplay(name, input): { label, detail }.  A label is kept
\* as one token, the words of the literal in the source (its emoji left out).
formatToolDisplay(name, inp) ==
    LET n == toLowerCase(name)
        cmd == field(inp, "command")
        filename == lastSegment(field2(inp, "file_path", "path"))
        url == field(inp, "url")
    IN CASE n = Str_bash ->
              IF startsWith(cmd, Str_python)
              THEN [label |-> <<"Running script">>, detail |-> cmd]
              ELSE IF startsWith(cmd, Str_pipInstall)
              THEN [label |-> <<"Installing package">>,
                    detail |-> replaceFirst(cmd, Str_pipInstall \o <<" ">>, <<>>)]
              ELSE [label |-> <<"Running">>, detail |-> cmd]
         [] n = Str_write -> [label |-> <<"Creating file">>, detail |-> filename]
         [] n \in {Str_edit, Str_multiedit} -> [label |-> <<"Editing">>, detail |-> filename]
         [] n = Str_read -> [label |-> <<"Reading">>, detail |-> filename]
         [] n = Str_glob -> [label |-> <<"Finding files">>, detail |-> field(inp, "pattern")]
         [] n = Str_grep ->
              [label |-> <<"Searching for">>,
               detail |-> <<"\"">> \o (IF "pattern" \in DOMAIN inp THEN inp["pattern"]
                                       ELSE Str_undefined) \o <<"\"">>]
         [] n = Str_ls ->
              [label |-> <<"Listing folder">>,
               detail |-> IF field(inp, "path") # <<>> THEN field(inp, "path") ELSE <<".">>]
         [] n = Str_websearch -> [label |-> <<"Searching web">>, detail |-> field(inp, "query")]
         [] n = Str_webfetch ->
              IF hostname(url) # None
              THEN [label |-> <<"Loading">>, detail |-> hostname(url)[1]]
              ELSE [label |-> <<"Loading page">>, detail |-> url]
         [] n \in {Str_todowrite, Str_todoread} ->
              [label |-> <<"Organizing tasks">>, detail |-> <<>>]
         [] n = Str_task -> [label |-> <<"Working on subtask">>, detail |-> <<>>]
         [] OTHER -> [label |-> <<"(gear)", " ">> \o name, detail |-> <<>>]

\* display.detail ? `${display.label}: ${display.detail}` : display.label
toolUseContent(name, inp) ==
    LET display == formatToolDisplay(name, inp)
    IN IF display.detail # <<>> THEN display.label \o <<":", " ">> \o display.detail
       ELSE display.label

-----------------------------------------------------------------------------
(* HatchEvent and the items of the SDK stream *)

\* interface HatchEvent: every optional field is None or Some(value).
HatchEvent(type) ==
    [type |-> type, sessionId |-> None, text |-> None, toolName |-> None, toolId |-> None,
     toolInput |-> None, toolInputDelta |-> None, toolResult |-> None, error |-> None]

NoEvent == HatchEvent("none")

SessionIds == {"s1", "s2"}
ToolIds == {"t1"}
Name_Bash == <<"B", "a", "s", "h">>
Name_Frob == <<"F", "r", "o", "b">>
DeltaTexts == {<<>>, <<"a">>, <<"b">>}
JsonDeltas == {<<>>, <<"{">>}
FullTexts == {<<>>, <<"a", "b">>}
Input_ls == [k \in {"command"} |-> <<"l", "s">>]
Input_empty == [k \in {} |-> <<>>]

\* The texts a tool result may carry as a string: empty, and around the limit.
ResultTexts ==
    {<<>>, Long(TruncateLimit), Long(TruncateLimit + 1), Long(TruncateLimit + 200)}

\* piece.content of a tool_result piece: a string, or an array of blocks.
ResultContents ==
    {[kind |-> "string", text |-> t, blocks |-> <<>>] : t \in ResultTexts}
    \cup {[kind |-> "array", text |-> <<>>,
           blocks |-> <<[type |-> "text", text |-> <<"x">>],
                        [type |-> "image", text |-> <<>>],
                        [type |-> "text", text |-> <<"y">>]>>]}

TextPiece(t) == [type |-> "text", text |-> t, name |-> <<>>, id |-> "", input |-> <<>>]
ToolUsePiece(n, id, inp) ==
    [type |-> "tool_use", text |-> <<>>, name |-> n, id |-> id, input |-> inp]

AssistantContents ==
    {<<TextPiece(t)>> : t \in FullTexts}
    \cup {<<ToolUsePiece(Name_Bash, "t1", Input_ls)>>,
          <<TextPiece(<<"a", "b">>), ToolUsePiece(Name_Frob, "t1", Input_empty)>>}

SdkItems ==
    {[type |-> "system", subtype |-> "init", session_id |-> s] : s \in SessionIds}
    \cup {[type |-> "result"]}
    \cup {[type |-> "stream_event", event |-> "content_block_start",
           block |-> "tool_use", name |-> Name_Bash, id |-> i] : i \in ToolIds}
    \cup {[type |-> "stream_event", event |-> "content_block_delta",
           delta |-> "text_delta", text |-> t] : t \in DeltaTexts}
    \cup {[type |-> "stream_event", event |-> "content_block_delta",
           delta |-> "input_json_delta", partial_json |-> j] : j \in JsonDeltas}
    \cup {[type |-> "assistant", content |-> c] : c \in AssistantContents}
    \cup {[type |-> "user", content |-> <<[type |-> "tool_result", content |-> c]>>] :
              c \in ResultContents}

\* What the SDK stream may throw: an Error, or a value that is not an Error.
Thrown ==
    {[isError |-> TRUE, message |-> <<"n", "e", "t">>],
     [isError |-> FALSE, message |-> <<"x">>]}

\* error instanceof Error ? error.message : String(error)
errorText(err) == err.message

\* A concatenation that puts the later parts first.
RECURSIVE flattenBackwards(_)
flattenBackwards(ss) ==
    IF ss = <<>> THEN <<>> ELSE flattenBackwards(Tail(ss)) \o Head(ss)

\* The concatenation of the parts, in order: the yields of a for-of loop over the
\* pieces (hatch.ts:116, 132), the += over the text blocks (hatch.ts:136-140).
RECURSIVE flatten(_)
flatten(ss) == IF ss = <<>> THEN <<>> ELSE Head(ss) \o flatten(Tail(ss))

\* resultText of one tool_result piece (hatch.ts:134-143)
resultText(content) ==
    IF content.kind = "array"
    THEN flatten([k \in 1..Len(content.blocks) |->
                    IF content.blocks[k].type = "text" THEN content.blocks[k].text ELSE <<>>])
    ELSE IF content.kind = "string" THEN content.text
    ELSE <<>>

\* The events runHatch yields for one piece of an assistant message.
assistantPieceEvents(piece) ==
    IF piece.type = "text"
    THEN <<[HatchEvent("text") EXCEPT !.text = Some(piece.text)]>>
    ELSE IF piece.type = "tool_use"
    THEN <<[HatchEvent("tool_use_start") EXCEPT !.toolName = Some(piece.name),
                                                !.toolId = Some(piece.id),
                                                !.toolInput = Some(piece.input)]>>
    ELSE <<>>

\* The events runHatch yields for one piece of a user message.
userPieceEvents(piece) ==
    IF piece.type = "tool_result"
    THEN <<[HatchEvent("tool_result") EXCEPT !.toolResult = Some(resultText(piece.content))]>>
    ELSE <<>>

\* The body of runHatch's for-await loop: the events yielded, in order, for one item.
itemEvents(item) ==
    CASE item.type = "system" ->
           IF item.subtype = "init"
           THEN <<[HatchEvent("init") EXCEPT !.sessionId = Some(item.session_id)]>>
           ELSE <<>>
      [] item.type = "stream_event" ->
           IF item.event = "content_block_start"
           THEN IF item.block = "tool_use"
                THEN <<[HatchEvent("tool_use_start") EXCEPT !.toolName = Some(item.name),
                                                            !.toolId = Some(item.id)]>>
                ELSE <<>>
           ELSE IF item.event = "content_block_delta"
           THEN IF item.delta = "text_delta"
                THEN <<[HatchEvent("text_delta") EXCEPT !.text = Some(item.text)]>>
                ELSE IF item.delta = "input_json_delta"
                THEN <<[HatchEvent("tool_input_delta")
                          EXCEPT !.toolInputDelta = Some(item.partial_json)]>>
                ELSE <<>>
           ELSE <<>>
      [] item.type = "assistant" ->
           flatten([k \in 1..Len(item.content) |-> assistantPieceEvents(item.content[k])])
      [] item.type = "user" ->
           flatten([k \in 1..Len(item.content) |-> userPieceEvents(item.content[k])])
      [] OTHER -> <<>>

\* A variant that keeps the id the run was resumed with.
itemSessionKeepsResumed(item, current) ==
    IF item.type = "system" /\ item.subtype = "init" /\ current = None
    THEN Some(item.session_id) ELSE current

\* currentSessionId after one item (hatch.ts:82-83)
itemSession(item, current) ==
    IF item.type = "system" /\ item.subtype = "init" THEN Some(item.session_id) ELSE current

-----------------------------------------------------------------------------
(* App: the React state and handleSubmit *)

\* interface DisplayMessage
DisplayMessage(type, content, toolName) ==
    [type |-> type, content |-> content, toolName |-> toolName]

\* What the user may type, and what may be submitted.
Typed == {<<>>, <<"h">>}
Prompts == {<<>>, <<" ">>, <<"h">>, <<" ", "h", " ">>}

\* The record kept in `last`: arg is the argument of the operation (the value
\* handed to handleSubmit, the SDK item taken by runHatch).
OpArg(op, ev, arg) ==
    [op |-> op, ev |-> ev, arg |-> arg,
     pre |-> [streamingText |-> streamingText, currentTool |-> currentTool,
              toolInput |-> toolInput, isProcessing |-> isProcessing]]

Op(op, ev) == OpArg(op, ev, <<>>)

Init ==
    /\ input = <<>>
    /\ messages = <<>>
    /\ sessionId = None
    /\ isProcessing = FALSE
    /\ streamingText = <<>>
    /\ currentTool = None
    /\ toolInput = <<>>
    /\ runs = <<>>
    /\ steps = 0
    /\ last = Op("mount", NoEvent)
    /\ tstr = <<>>
    /\ tcount = 0
    /\ fcall = None
    /\ fout = None

\* TextInput's onChange={setInput}; the input is mounted only while not processing
\* (App.tsx:247-256).
OnChange(v) ==
    /\ ~isProcessing
    /\ steps < MaxSteps
    /\ input' = v
    /\ steps' = steps + 1
    /\ last' = Op("change", NoEvent)
    /\ UNCHANGED <<messages, sessionId, isProcessing, streamingText, currentTool, toolInput,
                   runs, tstr, tcount,
                   fcall, fout>>

\* A faulty guard that tests the value without trimming it.
rejectsUntrimmed(value) == value = <<>> \/ isProcessing

\* A faulty guard that forgets the exchange in progress.
rejectsEmptyOnly(value) == trim(value) = <<>>

\* if (!value.trim() || isProcessing) return;
rejects(value) == trim(value) = <<>> \/ isProcessing

\* A variant that starts every exchange as a new session.
callRunHatchFresh(userInput) ==
    [userInput |-> userInput,
     closure |-> [streamingText |-> streamingText, sessionId |-> sessionId],
     currentSessionId |-> None,
     gen |-> "running",
     thrown |-> None,
     pending |-> <<>>,
     tail |-> <<>>]

\* runHatch(userInput, sessionId) at App.tsx:92: the call of handleSubmit with the
\* streamingText and sessionId of its render, and the generator it starts, whose
\* currentSessionId begins as the sessionId argument (hatch.ts:54, 77).
callRunHatch(userInput) ==
    [userInput |-> userInput,
     closure |-> [streamingText |-> streamingText, sessionId |-> sessionId],
     currentSessionId |-> sessionId,
     gen |-> "running",
     thrown |-> None,
     pending |-> <<>>,
     tail |-> <<>>]

\* One call of handleSubmit up to its first await: the guard, the state resets and
\* the call of runHatch(userInput, sessionId).  The call keeps the streamingText and
\* sessionId of the render it was made in.
handleSubmit(value) ==
    /\ steps < MaxSteps
    /\ steps' = steps + 1
    /\ IF rejects(value)
       THEN /\ last' = OpArg(IF trim(value) = <<>> THEN "rejected_empty"
                                                      ELSE "rejected_busy",
                              NoEvent, value)
            /\ UNCHANGED <<input, messages, sessionId, isProcessing, streamingText,
                           currentTool, toolInput, runs, tstr, tcount,
                   fcall, fout>>
       ELSE
         /\ input' = <<>>
         /\ messages' = Append(messages, DisplayMessage("user", trim(value), None))
         /\ isProcessing' = TRUE
         /\ streamingText' = <<>>
         /\ currentTool' = None
         /\ toolInput' = <<>>
         /\ runs' = Append(runs, callRunHatch(trim(value)))
         /\ last' = OpArg("submitted", NoEvent, value)
         /\ UNCHANGED <<sessionId, tstr, tcount,
                   fcall, fout>>

\* runHatch takes the next item of the SDK stream and runs the loop body on it;
\* the events of the item are handed to the consumer one at a time.
StreamItem(i, item) ==
    /\ runs[i].gen = "running"
    /\ runs[i].pending = <<>>
    /\ steps < MaxSteps
    /\ runs' = [runs EXCEPT ![i].pending = itemEvents(item),
                            ![i].currentSessionId = itemSession(item, @)]
    /\ steps' = steps + 1
    /\ last' = OpArg("item", NoEvent, item)
    /\ UNCHANGED <<appState, tstr, tcount,
                   fcall, fout>>

\* The SDK stream ends: yield { type: 'done', sessionId: currentSessionId }
StreamEnd(i) ==
    /\ runs[i].gen = "running"
    /\ runs[i].pending = <<>>
    /\ runs' = [runs EXCEPT
                  ![i].pending = <<[HatchEvent("done") EXCEPT !.sessionId = runs[i].currentSessionId]>>,
                  ![i].gen = "finished"]
    /\ last' = Op("end", NoEvent)
    /\ UNCHANGED <<appState, steps, tstr, tcount,
                   fcall, fout>>

\* A variant whose try/catch sits inside the loop: the stream goes on after the error.
StreamThrowInsideLoop(i, err) ==
    /\ runs[i].gen = "running"
    /\ runs[i].pending = <<>>
    /\ runs' = [runs EXCEPT
                  ![i].pending = <<[HatchEvent("error") EXCEPT !.error = Some(errorText(err))]>>,
                  ![i].thrown = Some(err)]
    /\ last' = Op("throw", NoEvent)
    /\ UNCHANGED <<appState, steps, tstr, tcount,
                   fcall, fout>>

\* query() or the SDK stream throws: the catch of runHatch yields one error event.
StreamThrow(i, err) ==
    /\ runs[i].gen = "running"
    /\ runs[i].pending = <<>>
    /\ runs' = [runs EXCEPT
                  ![i].pending = <<[HatchEvent("error") EXCEPT !.error = Some(errorText(err))]>>,
                  ![i].thrown = Some(err),
                  ![i].gen = "finished"]
    /\ last' = Op("throw", NoEvent)
    /\ UNCHANGED <<appState, steps, tstr, tcount,
                   fcall, fout>>

-----------------------------------------------------------------------------
(* The switch of handleSubmit's for-await loop.  r is the call (its closure), e *)
(* the event; every setter takes effect on the component state.                *)

\* case 'init'
caseInit(r, e) ==
    /\ sessionId' = e.sessionId
    /\ UNCHANGED <<messages, streamingText, currentTool, toolInput>>

\* A variant that also shows each fragment as an entry of its own.
caseTextDeltaAsEntry(r, e) ==
    /\ streamingText' = IF Truthy(e.text) THEN streamingText \o e.text[1] ELSE streamingText
    /\ messages' = IF Truthy(e.text)
                   THEN Append(messages, DisplayMessage("assistant", e.text[1], None))
                   ELSE messages
    /\ UNCHANGED <<sessionId, currentTool, toolInput>>

\* case 'text_delta'
caseTextDelta(r, e) ==
    /\ streamingText' = IF Truthy(e.text) THEN streamingText \o e.text[1] ELSE streamingText
    /\ UNCHANGED <<messages, sessionId, currentTool, toolInput>>

\* A variant that appends the text and leaves the buffer as it is.
caseTextKeepsBuffer(r, e) ==
    LET finalText == IF Truthy(e.text) THEN e.text[1] ELSE r.closure.streamingText
    IN IF r.closure.streamingText # <<>> \/ Truthy(e.text)
       THEN /\ messages' = Append(messages, DisplayMessage("assistant", finalText, None))
            /\ UNCHANGED <<sessionId, streamingText, currentTool, toolInput>>
       ELSE UNCHANGED <<messages, sessionId, streamingText, currentTool, toolInput>>

\* case 'text': streamingText is the closure's
caseText(r, e) ==
    LET finalText == IF Truthy(e.text) THEN e.text[1] ELSE r.closure.streamingText
    IN IF r.closure.streamingText # <<>> \/ Truthy(e.text)
       THEN /\ messages' = Append(messages, DisplayMessage("assistant", finalText, None))
            /\ streamingText' = <<>>
            /\ UNCHANGED <<sessionId, currentTool, toolInput>>
       ELSE UNCHANGED <<messages, sessionId, streamingText, currentTool, toolInput>>

\* A variant that shows a tool call as soon as it starts, input or not.
caseToolUseStartEager(r, e) ==
    LET flush == r.closure.streamingText # <<>>
        flushed == IF flush
                   THEN Append(messages,
                               DisplayMessage("assistant", r.closure.streamingText, None))
                   ELSE messages
        inp == IF e.toolInput # None THEN e.toolInput[1] ELSE Input_empty
    IN /\ streamingText' = IF flush THEN <<>> ELSE streamingText
       /\ toolInput' = <<>>
       /\ messages' = Append(flushed,
                         DisplayMessage("tool_use", toolUseContent(e.toolName[1], inp),
                                        e.toolName))
       /\ currentTool' = IF e.toolInput # None THEN None
                         ELSE IF Truthy(e.toolName) THEN e.toolName ELSE None
       /\ UNCHANGED sessionId

\* A variant that first turns the tool call still open into a tool_use entry.
caseToolUseStartFlushesOpen(r, e) ==
    LET flush == r.closure.streamingText # <<>>
        flushed == IF flush
                   THEN Append(messages,
                               DisplayMessage("assistant", r.closure.streamingText, None))
                   ELSE messages
        closed == IF currentTool # None
                  THEN Append(flushed,
                              DisplayMessage("tool_use", <<"(gear)", " ">> \o currentTool[1]
                                                \o <<":", " ">> \o toolInput, currentTool))
                  ELSE flushed
    IN /\ streamingText' = IF flush THEN <<>> ELSE streamingText
       /\ toolInput' = <<>>
       /\ IF e.toolInput # None
          THEN /\ messages' = Append(closed,
                      DisplayMessage("tool_use", toolUseContent(e.toolName[1], e.toolInput[1]),
                                     e.toolName))
               /\ currentTool' = None
          ELSE /\ messages' = closed
               /\ currentTool' = IF Truthy(e.toolName) THEN e.toolName ELSE None
       /\ UNCHANGED sessionId

\* A variant that leaves the tool call open after appending its entry.
caseToolUseStartKeepsOpen(r, e) ==
    LET flush == r.closure.streamingText # <<>>
        flushed == IF flush
                   THEN Append(messages,
                               DisplayMessage("assistant", r.closure.streamingText, None))
                   ELSE messages
    IN /\ streamingText' = IF flush THEN <<>> ELSE streamingText
       /\ toolInput' = <<>>
       /\ currentTool' = IF Truthy(e.toolName) THEN e.toolName ELSE None
       /\ messages' = IF e.toolInput # None
                      THEN Append(flushed,
                             DisplayMessage("tool_use",
                                            toolUseContent(e.toolName[1], e.toolInput[1]),
                                            e.toolName))
                      ELSE flushed
       /\ UNCHANGED sessionId

\* case 'tool_use_start': streamingText is the closure's
caseToolUseStart(r, e) ==
    LET flush == r.closure.streamingText # <<>>
        flushed == IF flush
                   THEN Append(messages,
                               DisplayMessage("assistant", r.closure.streamingText, None))
                   ELSE messages
    IN /\ streamingText' = IF flush THEN <<>> ELSE streamingText
       /\ toolInput' = <<>>
       /\ IF e.toolInput # None
          THEN /\ messages' = Append(flushed,
                      DisplayMessage("tool_use", toolUseContent(e.toolName[1], e.toolInput[1]),
                                     e.toolName))
               /\ currentTool' = None
          ELSE /\ messages' = flushed
               /\ currentTool' = IF Truthy(e.toolName) THEN e.toolName ELSE None
       /\ UNCHANGED sessionId

\* A variant that ignores a delta when no tool call is open.
caseToolInputDeltaGuarded(r, e) ==
    /\ toolInput' = IF Truthy(e.toolInputDelta) /\ currentTool # None
                    THEN toolInput \o e.toolInputDelta[1] ELSE toolInput
    /\ UNCHANGED <<messages, sessionId, streamingText, currentTool>>

\* case 'tool_input_delta'
caseToolInputDelta(r, e) ==
    /\ toolInput' = IF Truthy(e.toolInputDelta) THEN toolInput \o e.toolInputDelta[1]
                    ELSE toolInput
    /\ UNCHANGED <<messages, sessionId, streamingText, currentTool>>

\* A variant that appends a tool_result entry even for an empty text.
caseToolResultAlways(r, e) ==
    /\ currentTool' = None
    /\ toolInput' = <<>>
    /\ messages' = Append(messages,
                      DisplayMessage("tool_result",
                                     truncate(e.toolResult[1], TruncateLimit), None))
    /\ UNCHANGED <<sessionId, streamingText>>

\* A variant that first turns the open tool call into a tool_use entry.
caseToolResultFlush(r, e) ==
    LET flushed == IF currentTool # None
                   THEN Append(messages,
                               DisplayMessage("tool_use", <<"(gear)", " ">> \o currentTool[1]
                                                 \o <<":", " ">> \o toolInput, currentTool))
                   ELSE messages
    IN /\ currentTool' = None
       /\ toolInput' = <<>>
       /\ messages' = IF Truthy(e.toolResult)
                      THEN Append(flushed,
                             DisplayMessage("tool_result",
                                            truncate(e.toolResult[1], TruncateLimit), None))
                      ELSE flushed
       /\ UNCHANGED <<sessionId, streamingText>>

\* case 'tool_result'
caseToolResult(r, e) ==
    /\ currentTool' = None
    /\ toolInput' = <<>>
    /\ messages' = IF Truthy(e.toolResult)
                   THEN Append(messages,
                          DisplayMessage("tool_result",
                                         truncate(e.toolResult[1], TruncateLimit), None))
                   ELSE messages
    /\ UNCHANGED <<sessionId, streamingText>>

\* A variant that reports the error and raises it again, into the catch.
caseErrorRethrow(r, e) ==
    /\ messages' = Append(Append(messages, DisplayMessage("error", e.error[1], None)),
                          DisplayMessage("error", e.error[1], None))
    /\ UNCHANGED <<sessionId, streamingText, currentTool, toolInput>>

\* A variant that shows the partial text before the error.
caseErrorFlush(r, e) ==
    /\ messages' = Append(IF streamingText # <<>>
                          THEN Append(messages, DisplayMessage("assistant", streamingText, None))
                          ELSE messages,
                          DisplayMessage("error", e.error[1], None))
    /\ UNCHANGED <<sessionId, streamingText, currentTool, toolInput>>

\* A variant that sets the list instead of appending to it.
caseErrorOnly(r, e) ==
    /\ messages' = <<DisplayMessage("error", e.error[1], None)>>
    /\ UNCHANGED <<sessionId, streamingText, currentTool, toolInput>>

\* case 'error'
caseError(r, e) ==
    /\ messages' = Append(messages, DisplayMessage("error", e.error[1], None))
    /\ UNCHANGED <<sessionId, streamingText, currentTool, toolInput>>

\* case 'done': streamingText is the closure's
caseDone(r, e) ==
    LET flush == r.closure.streamingText # <<>>
    IN /\ messages' = IF flush
                      THEN Append(messages,
                                  DisplayMessage("assistant", r.closure.streamingText, None))
                      ELSE messages
       /\ streamingText' = IF flush THEN <<>> ELSE streamingText
       /\ sessionId' = IF e.sessionId # None THEN e.sessionId ELSE sessionId
       /\ UNCHANGED <<currentTool, toolInput>>

\* The loop body raises on this event: formatToolDisplay(event.toolName!, ...) reads
\* name.toLowerCase() (App.tsx:124, 339) of a name that is undefined.  No event of
\* runHatch is such: the SDK's tool_use pieces all carry a name.
throws(e) == e.type = "tool_use_start" /\ e.toolInput # None /\ e.toolName = None

TypeErrorMessage == <<"T", "y", "p", "e", "E", "r", "r", "o", "r">>

\* The body up to the raise (App.tsx:117-123), then catch (error) (App.tsx:181-189).
catchError(r, e) ==
    LET flush == r.closure.streamingText # <<>>
        flushed == IF flush
                   THEN Append(messages,
                               DisplayMessage("assistant", r.closure.streamingText, None))
                   ELSE messages
    IN /\ messages' = Append(flushed, DisplayMessage("error", TypeErrorMessage, None))
       /\ streamingText' = IF flush THEN <<>> ELSE streamingText
       /\ currentTool' = None
       /\ toolInput' = <<>>
       /\ UNCHANGED sessionId

\* One turn of the for-await loop: the next event of the call's stream is handled.
\* When the body raises, the loop is left and the generator is closed unfinished.
HandleEvent(i) ==
    /\ runs[i].pending # <<>>
    /\ LET r == runs[i]
           e == Head(runs[i].pending)
       IN /\ CASE throws(e) -> catchError(r, e)
               [] e.type = "init" -> caseInit(r, e)
               [] e.type = "text_delta" -> caseTextDelta(r, e)
               [] e.type = "text" -> caseText(r, e)
               [] e.type = "tool_use_start" -> caseToolUseStart(r, e)
               [] e.type = "tool_input_delta" -> caseToolInputDelta(r, e)
               [] e.type = "tool_result" -> caseToolResult(r, e)
               [] e.type = "error" -> caseError(r, e)
               [] e.type = "done" -> caseDone(r, e)
          /\ runs' = IF throws(e)
                     THEN [runs EXCEPT ![i].pending = <<>>, ![i].gen = "closed"]
                     ELSE [runs EXCEPT ![i].pending = Tail(@),
                                       ![i].tail = IF @ # <<>> \/ e.type \in {"done", "error"}
                                                   THEN Append(@, e) ELSE @]
          /\ last' = Op("event", e)
    /\ UNCHANGED <<input, isProcessing, steps, tstr, tcount,
                   fcall, fout>>

\* The sequence without its i-th element.
Remove(seq, i) == SubSeq(seq, 1, i - 1) \o SubSeq(seq, i + 1, Len(seq))

\* A variant of the end of the call that only clears isProcessing.
EndExchangeKeepsBuffers(i) ==
    /\ runs[i].gen \in {"finished", "closed"}
    /\ runs[i].pending = <<>>
    /\ isProcessing' = FALSE
    /\ runs' = Remove(runs, i)
    /\ last' = Op("idle", NoEvent)
    /\ UNCHANGED <<input, messages, sessionId, streamingText, currentTool, toolInput,
                   steps, tstr, tcount, fcall, fout>>

\* A variant of the end of the call that leaves isProcessing set.
EndExchangeStaysBusy(i) ==
    /\ runs[i].gen \in {"finished", "closed"}
    /\ runs[i].pending = <<>>
    /\ streamingText' = <<>>
    /\ currentTool' = None
    /\ toolInput' = <<>>
    /\ runs' = Remove(runs, i)
    /\ last' = Op("idle", NoEvent)
    /\ UNCHANGED <<input, messages, sessionId, isProcessing, steps, tstr, tcount,
                   fcall, fout>>

\* After the loop (App.tsx:191-194): the stream is exhausted, or the loop was left
\* through the catch, and the call ends.
EndExchange(i) ==
    /\ runs[i].gen \in {"finished", "closed"}
    /\ runs[i].pending = <<>>
    /\ isProcessing' = FALSE
    /\ streamingText' = <<>>
    /\ currentTool' = None
    /\ toolInput' = <<>>
    /\ runs' = Remove(runs, i)
    /\ last' = Op("idle", NoEvent)
    /\ UNCHANGED <<input, messages, sessionId, steps, tstr, tcount,
                   fcall, fout>>

Next ==
    \/ \E v \in Typed : OnChange(v)
    \/ \E value \in Prompts : handleSubmit(value)
    \/ \E i \in DOMAIN runs : \E item \in SdkItems : StreamItem(i, item)
    \/ \E i \in DOMAIN runs : StreamEnd(i)
    \/ \E i \in DOMAIN runs : \E err \in Thrown : StreamThrow(i, err)
    \/ \E i \in DOMAIN runs : HandleEvent(i)
    \/ \E i \in DOMAIN runs : EndExchange(i)

Spec == Init /\ [][Next]_vars

\* A call of handleSubmit is a chain of promise continuations: once the generator
\* has an event to hand over, the loop body is run on it, and once the generator is
\* done the statements after the loop are run.  Neither waits for anything but the
\* event loop, so both are taken when they stay possible.  Nothing is assumed of
\* the user or of the SDK stream.
FairSpec ==
    /\ Init
    /\ [][Next]_vars
    /\ WF_vars(\E i \in DOMAIN runs : HandleEvent(i))
    /\ WF_vars(\E i \in DOMAIN runs : EndExchange(i))

-----------------------------------------------------------------------------
(* truncate on its own: a string is drawn and truncate applied to it repeatedly *)

MaxApply == 2

TruncLengths ==
    (0..5) \cup ((TruncateLimit - 5)..(TruncateLimit + 5))
           \cup ((TruncateLimit + Len(Marker) - 5)..(TruncateLimit + Len(Marker) + 5))
           \cup {TruncateLimit + 200, 2 * TruncateLimit}

\* Long(n) with its digits shifted by k.
Shifted(n, k) == [i \in 1..n |-> Digits[((i + k) % 10) + 1]]

TruncInputs ==
    {Shifted(n, k) : n \in TruncLengths, k \in {0, 3, 7}}
    \cup {Shifted(n, k) \o Marker :
             n \in {0, TruncateLimit - Len(Marker), TruncateLimit - 1, TruncateLimit},
             k \in {0, 3, 7}}

InitTruncate ==
    /\ input = <<>>
    /\ messages = <<>>
    /\ sessionId = None
    /\ isProcessing = FALSE
    /\ streamingText = <<>>
    /\ currentTool = None
    /\ toolInput = <<>>
    /\ runs = <<>>
    /\ steps = 0
    /\ last = Op("mount", NoEvent)
    /\ tstr \in TruncInputs
    /\ tcount = 0
    /\ fcall = None
    /\ fout = None

ApplyTruncate ==
    /\ tcount < MaxApply
    /\ tstr' = truncate(tstr, TruncateLimit)
    /\ tcount' = tcount + 1
    /\ UNCHANGED <<appState, runs, steps, last, fcall, fout>>

NextTruncate == ApplyTruncate

SpecTruncate == InitTruncate /\ [][NextTruncate]_vars

-----------------------------------------------------------------------------
(* formatToolDisplay on its own: a tool name and an input record are drawn and *)
(* the function is called on them once                                         *)

toUpperChar(c) ==
    IF \E k \in 1..26 : LowerLetters[k] = c
    THEN UpperLetters[CHOOSE k \in 1..26 : LowerLetters[k] = c]
    ELSE c

\* The name in capitals, and with a capital first letter.
Capitals(s) == [i \in 1..Len(s) |-> toUpperChar(s[i])]
Capitalized(s) == [i \in 1..Len(s) |-> IF i = 1 THEN toUpperChar(s[i]) ELSE s[i]]

UnknownToolNames ==
    {Name_Frob, <<"f", "r", "o", "b">>, <<"b", "a", "s", "h", "2">>,
     <<"N", "o", "t", "e", "b", "o", "o", "k", "E", "d", "i", "t">>, <<>>}

FormatNames ==
    KnownToolNames \cup {Capitals(s) : s \in KnownToolNames}
                   \cup {Capitalized(s) : s \in KnownToolNames}
                   \cup UnknownToolNames

FormatInputs ==
    {Input_empty,
     Input_ls,
     [k \in {"command"} |-> Str_python \o <<" ", "x">>],
     [k \in {"command"} |-> Str_pipInstall \o <<" ", "y">>],
     [k \in {"file_path"} |-> <<"/", "a", "/", "b", ".", "p", "y">>],
     [k \in {"path"} |-> <<"a", "\\", "b">>],
     [k \in {"pattern"} |-> <<"*", ".", "t", "s">>],
     [k \in {"query"} |-> <<"q">>],
     [k \in {"url"} |-> <<"h", "t", "t", "p", "s", ":", "/", "/", "E", "x", ".", "c", "o", "/", "p">>],
     [k \in {"url"} |-> <<"b", "a", "d">>]}

InitFormat ==
    /\ input = <<>>
    /\ messages = <<>>
    /\ sessionId = None
    /\ isProcessing = FALSE
    /\ streamingText = <<>>
    /\ currentTool = None
    /\ toolInput = <<>>
    /\ runs = <<>>
    /\ steps = 0
    /\ last = Op("mount", NoEvent)
    /\ tstr = <<>>
    /\ tcount = 0
    /\ fcall \in {Some([name |-> n, inp |-> i]) : n \in FormatNames, i \in FormatInputs}
    /\ fout = None

ApplyFormat ==
    /\ fout = None
    /\ fout' = Some(formatToolDisplay(fcall[1].name, fcall[1].inp))
    /\ UNCHANGED <<appState, runs, steps, last, tstr, tcount, fcall>>

NextFormat == ApplyFormat

SpecFormat == InitFormat /\ [][NextFormat]_vars

-----------------------------------------------------------------------------
(* Properties *)

\* The step is one turn of the for-await loop handling an event of this type; the
\* event is last'.ev, and the unprimed variables are the state it found.
EventStep(type) ==
    /\ last'.op = "event"
    /\ last'.ev.type = type
    /\ \E i \in DOMAIN runs : runs[i].pending # <<>> /\ Head(runs[i].pending) = last'.ev

Assistant(text) == DisplayMessage("assistant", text, None)

UserEntries(msgs) == Cardinality({k \in DOMAIN msgs : msgs[k].type = "user"})

\* C1 (flush-on-switch, as claimed): whenever a tool_use_start event is handled
\* while text received by earlier text_delta events is still in the buffer, an
\* assistant entry holding exactly that text is appended right after the entries
\* already there (before any tool_use entry) and the buffer is cleared.
C1_FlushOnSwitch ==
    [][(EventStep("tool_use_start") /\ streamingText # <<>>)
         => /\ IsPrefix(messages, messages')
            /\ Len(messages') > Len(messages)
            /\ messages'[Len(messages) + 1] = Assistant(streamingText)
            /\ streamingText' = <<>>]_vars

\* C2 (order preservation, as claimed): a text event that carries no text, handled
\* while the buffer holds the concatenation of the text_delta fragments received,
\* appends one assistant entry whose content is that concatenation.
C2_OrderPreservation ==
    [][(EventStep("text") /\ ~Truthy(last'.ev.text) /\ streamingText # <<>>)
         => messages' = Append(messages, Assistant(streamingText))]_vars

\* C3 (no loss of finalized entries): every step leaves the previous messages list
\* as a prefix of the new one.
C3_NoLossOfEntries == [][IsPrefix(messages, messages')]_vars

\* Two exchanges and an error entry that later entries follow.
C3_Witness ==
    /\ Len(messages) >= 3
    /\ \E k \in 1..(Len(messages) - 1) : messages[k].type = "error"

\* C4 (submission guard): while a call of handleSubmit is consuming its stream, no
\* step adds a user entry or a second stream: at most one stream is consumed.
C4_SubmissionGuard ==
    [][runs # <<>>
         => /\ Len(runs') <= 1
            /\ UserEntries(messages') = UserEntries(messages)]_vars

\* A non-empty prompt was submitted during an exchange and refused.
C4_Witness ==
    /\ last.op = "rejected_busy"
    /\ Len(runs) = 1
    /\ isProcessing
    /\ UserEntries(messages) = 1

\* C5 (tool call with deferred input, as claimed): a tool_result handled while a
\* tool call is open appends a tool_use entry for that tool first, and clears both
\* in-progress tool fields.
C5_ToolResultFlushesOpenCall ==
    [][(EventStep("tool_result") /\ currentTool # None)
         => /\ Len(messages') > Len(messages)
            /\ messages'[Len(messages) + 1].type = "tool_use"
            /\ messages'[Len(messages) + 1].toolName = currentTool
            /\ currentTool' = None
            /\ toolInput' = <<>>]_vars

\* C5 (amended): a tool_result handled while a tool call is open appends no
\* tool_use entry: the list keeps its entries and gains at most one entry, of type
\* tool_result (none when the result text is empty); the accumulated input is
\* dropped and both in-progress tool fields are cleared.
C5_ToolResultDropsOpenCall ==
    [][(EventStep("tool_result") /\ currentTool # None)
         => /\ IsPrefix(messages, messages')
            /\ IF Truthy(last'.ev.toolResult)
               THEN /\ Len(messages') = Len(messages) + 1
                    /\ messages'[Len(messages')].type = "tool_result"
               ELSE messages' = messages
            /\ currentTool' = None
            /\ toolInput' = <<>>]_vars

\* A tool call with accumulated input was open when the result arrived; the
\* transcript holds the result and no tool_use entry.
C5_Witness ==
    /\ last.op = "event"
    /\ last.ev.type = "tool_result"
    /\ last.pre.currentTool # None
    /\ last.pre.toolInput # <<>>
    /\ currentTool = None
    /\ toolInput = <<>>
    /\ messages[Len(messages)].type = "tool_result"
    /\ \A k \in DOMAIN messages : messages[k].type # "tool_use"

\* C6 (failure mid-stream): an error event appends exactly one entry, the error
\* with the event's message; once a call's stream has delivered the error, nothing
\* is appended until the call ends, and when it ends the three in-progress fields
\* are empty.
C6_FailureMidStream ==
    [][/\ EventStep("error")
          => messages' = Append(messages, DisplayMessage("error", last'.ev.error[1], None))
       /\ \A i \in DOMAIN runs :
            (runs[i].tail # <<>> /\ runs[i].tail[1].type = "error")
              => /\ messages' = messages
                 /\ Len(runs') < Len(runs)
                      => streamingText' = <<>> /\ currentTool' = None /\ toolInput' = <<>>
      ]_vars

\* An error was handled while partial text was in the buffer; the entry appended
\* is the error, and no assistant entry was made of the text.
C6_Witness ==
    /\ last.op = "event"
    /\ last.ev.type = "error"
    /\ last.pre.streamingText # <<>>
    /\ messages[Len(messages)] = DisplayMessage("error", last.ev.error[1], None)
    /\ \A k \in DOMAIN messages : messages[k].type # "assistant"

IsTerminal(e) == e.type \in {"done", "error"}

\* C7 (event-source termination): a stream delivers a terminal event only once it
\* has finished, and nothing after it; a finished and drained stream has delivered
\* exactly one terminal event; if the SDK stream threw, the terminal event is an
\* error carrying the exception's message, and no done is ever delivered.
C7_Termination ==
    \A i \in DOMAIN runs :
      LET r == runs[i]
          rest == r.tail \o r.pending
      IN /\ Len(r.tail) <= 1
         /\ r.gen = "running" => \A k \in DOMAIN rest : ~IsTerminal(rest[k])
         /\ r.gen = "finished" =>
              /\ Len(rest) = 1
              /\ IsTerminal(rest[1])
              /\ r.thrown = None => rest[1].type = "done"
              /\ r.thrown # None =>
                   rest[1].type = "error" /\ rest[1].error = Some(r.thrown[1].message)

\* The SDK stream threw after text had been delivered, and the error event has
\* been handled.
C7_Witness ==
    \E i \in DOMAIN runs :
      /\ runs[i].thrown # None
      /\ runs[i].pending = <<>>
      /\ Len(runs[i].tail) = 1
      /\ runs[i].tail[1].type = "error"
      /\ streamingText # <<>>

\* C8 (malformed-event resilience, as claimed): a tool_input_delta handled when no
\* tool call is open leaves messages, streamingText, currentTool, toolInput and
\* sessionId unchanged.
C8_DeltaWithoutToolIgnored ==
    [][(EventStep("tool_input_delta") /\ currentTool = None)
         => UNCHANGED <<messages, streamingText, currentTool, toolInput, sessionId>>]_vars

\* C8 (amended): a tool_input_delta handled when no tool call is open leaves
\* messages, streamingText, currentTool and sessionId unchanged, and appends the
\* event's fragment to toolInput.
C8_DeltaWithoutToolAccumulates ==
    [][(EventStep("tool_input_delta") /\ currentTool = None)
         => /\ UNCHANGED <<messages, streamingText, currentTool, sessionId>>
            /\ toolInput' = toolInput \o last'.ev.toolInputDelta[1]]_vars

\* A fragment arrived with no tool call open and is now in toolInput.
C8_Witness ==
    /\ last.op = "event"
    /\ last.ev.type = "tool_input_delta"
    /\ last.pre.currentTool = None
    /\ currentTool = None
    /\ toolInput # <<>>

\* C9 (truncation policy): after a tool_result with non-empty text is handled, the
\* last entry is a tool_result whose content is the text itself when it has at most
\* 800 characters, and its first 800 characters followed by the marker otherwise.
C9_TruncationPolicy ==
    (last.op = "event" /\ last.ev.type = "tool_result" /\ Truthy(last.ev.toolResult))
      => LET text == last.ev.toolResult[1]
             entry == messages[Len(messages)]
         IN /\ entry.type = "tool_result"
            /\ Len(text) <= 800 => entry.content = text
            /\ Len(text) > 800 =>
                 /\ Len(entry.content) = 800 + Len(Marker)
                 /\ SubSeq(entry.content, 1, 800) = SubSeq(text, 1, 800)
                 /\ SubSeq(entry.content, 801, Len(entry.content)) = Marker

\* A result of 1000 characters was handled: 800 characters and the marker.
C9_Witness ==
    /\ last.op = "event"
    /\ last.ev.type = "tool_result"
    /\ Len(last.ev.toolResult[1]) = 1000
    /\ Len(messages[Len(messages)].content) = 816

\* C10 (truncation idempotence): applying truncate(., 800) to a string that is
\* already a result of truncate(., 800) leaves it unchanged.
C10_TruncationIdempotent == [][tcount >= 1 => tstr' = tstr]_vars

\* truncate was applied twice to a string longer than the limit.
C10_Witness ==
    /\ tcount = 2
    /\ Len(tstr) = TruncateLimit + Len(Marker)

\* C11 (text completion, as claimed): a text event handled when it carries text or
\* the buffer holds accumulated fragments appends exactly one assistant entry, whose
\* content is the event's text when it carries one and the accumulated buffer
\* otherwise, and leaves the buffer empty.
C11_TextCompletion ==
    [][(EventStep("text") /\ (Truthy(last'.ev.text) \/ streamingText # <<>>))
         => /\ messages' = Append(messages,
                                  Assistant(IF Truthy(last'.ev.text) THEN last'.ev.text[1]
                                            ELSE streamingText))
            /\ streamingText' = <<>>]_vars

\* C12 (session end flush, as claimed): when a done event is handled, the entries
\* appended are, in this order, an assistant entry with the text still in the buffer
\* (if any) and a tool_use entry for the tool call still open (if any), and nothing
\* else; the session id becomes the event's when it carries one and is kept otherwise.
C12_SessionEndFlush ==
    [][EventStep("done")
         => LET nText == IF streamingText # <<>> THEN 1 ELSE 0
                nTool == IF currentTool # None THEN 1 ELSE 0
            IN /\ IsPrefix(messages, messages')
               /\ Len(messages') = Len(messages) + nText + nTool
               /\ nText = 1 => messages'[Len(messages) + 1] = Assistant(streamingText)
               /\ nTool = 1 => /\ messages'[Len(messages')].type = "tool_use"
                               /\ messages'[Len(messages')].toolName = currentTool
               /\ sessionId' = IF last'.ev.sessionId # None THEN last'.ev.sessionId
                               ELSE sessionId]_vars

\* The step handles an event that writes the session id: an init event, or a done
\* event that carries an id.
SessionWrite ==
    \/ EventStep("init")
    \/ EventStep("done") /\ last'.ev.sessionId # None

\* The step is an accepted submission: a call of runHatch is added.
Accepted == Len(runs') > Len(runs)

\* The stored id starts undefined, every write sets it to the id of the event, no
\* other step (an error, the end of an exchange, a submission) changes it, and an
\* accepted submission hands the stored id to runHatch.
SessionCarried ==
    /\ last.op = "mount" => sessionId = None
    /\ SessionWrite => sessionId' = last'.ev.sessionId /\ sessionId' # None
    /\ ~SessionWrite => sessionId' = sessionId
    /\ Accepted => /\ runs'[Len(runs')].currentSessionId = sessionId
                   /\ runs'[Len(runs')].closure.sessionId = sessionId

\* C13 (session id carry-forward, as claimed): the stored id is the last one written
\* by an init or id-carrying done event, is never cleared, and is what an accepted
\* submission hands to runHatch; that id is undefined only for the first submission.
C13_UndefinedOnlyForFirst ==
    [][/\ SessionCarried
       /\ (Accepted /\ UserEntries(messages) >= 1)
            => runs'[Len(runs')].currentSessionId # None]_vars

\* C13 (amended): the stored id is the last one written by an init or id-carrying
\* done event, is never cleared, and is what an accepted submission hands to
\* runHatch; that id is undefined as long as no such event has been handled, which
\* is the case of the first submission and of a later one when the exchanges before
\* it ended without an init event.
C13_SessionCarryForward ==
    [][/\ SessionCarried
       /\ (Accepted /\ UserEntries(messages) = 0)
            => runs'[Len(runs')].currentSessionId = None]_vars

\* A second submission was accepted after an exchange that recorded a session id,
\* and its call of runHatch resumes that session.
C13_Witness ==
    /\ last.op = "submitted"
    /\ UserEntries(messages) = 2
    /\ sessionId # None
    /\ Len(runs) = 1
    /\ runs[1].currentSessionId = sessionId

\* The entries of the list `after` that follow those of the list `before`.
Appended(before, after) == SubSeq(after, Len(before) + 1, Len(after))

ToolUseEntries(msgs) == Cardinality({k \in DOMAIN msgs : msgs[k].type = "tool_use"})

\* C14 (tool call with input present): a tool_use_start event that carries toolInput
\* keeps the entries already there and appends exactly one tool_use entry, the last
\* one, with the event's toolName and the content "label: detail" (or the label
\* alone) of formatToolDisplay; afterwards no tool call is open: currentTool is
\* null and toolInput is empty.
C14_ToolCallWithInput ==
    [][(EventStep("tool_use_start") /\ last'.ev.toolInput # None)
         => LET name == last'.ev.toolName[1]
                inp == last'.ev.toolInput[1]
                display == formatToolDisplay(name, inp)
                entry == messages'[Len(messages')]
            IN /\ IsPrefix(messages, messages')
               /\ ToolUseEntries(Appended(messages, messages')) = 1
               /\ entry.type = "tool_use"
               /\ entry.toolName = last'.ev.toolName
               /\ entry.content = IF display.detail = <<>> THEN display.label
                                  ELSE display.label \o <<":", " ">> \o display.detail
               /\ (name = Name_Bash /\ inp = Input_ls)
                    => entry.content = <<"Running", ":", " ", "l", "s">>
               /\ currentTool' = None
               /\ toolInput' = <<>>]_vars

\* A tool_use_start with input was handled while input fragments were held: its
\* entry is the last one, and no tool call is open.
C14_Witness ==
    /\ last.op = "event"
    /\ last.ev.type = "tool_use_start"
    /\ last.ev.toolInput # None
    /\ last.pre.toolInput # <<>>
    /\ messages[Len(messages)] =
         DisplayMessage("tool_use", <<"Running", ":", " ", "l", "s">>, Some(Name_Bash))
    /\ currentTool = None
    /\ toolInput = <<>>

\* C15 (tool call superseded, as claimed): a tool_use_start handled while an earlier
\* tool call is open appends a tool_use entry for the earlier call, before the entry
\* of the new call if the new call has one, and the accumulated input is not carried
\* over to the new call.
C15_SupersededCallFlushed ==
    [][(EventStep("tool_use_start") /\ currentTool # None)
         => LET new == Appended(messages, messages')
            IN /\ IsPrefix(messages, messages')
               /\ \E k \in DOMAIN new :
                    /\ new[k].type = "tool_use"
                    /\ new[k].toolName = currentTool
                    /\ last'.ev.toolInput # None => k < Len(new)
               /\ toolInput' = <<>>]_vars

\* C15 (amended): a tool_use_start handled while an earlier tool call is open appends
\* no tool_use entry for the earlier call: the earlier call and its accumulated input
\* are dropped.  The only tool_use entry appended is that of the new call, when the
\* new call carries its input; otherwise the new call becomes the open one.  The
\* accumulated input of the earlier call is never attributed to the new call.
C15_SupersededCallDropped ==
    [][(EventStep("tool_use_start") /\ currentTool # None)
         => LET new == Appended(messages, messages')
            IN /\ IsPrefix(messages, messages')
               /\ toolInput' = <<>>
               /\ IF last'.ev.toolInput = None
                  THEN /\ ToolUseEntries(new) = 0
                       /\ currentTool' = last'.ev.toolName
                  ELSE /\ ToolUseEntries(new) = 1
                       /\ new[Len(new)] =
                            DisplayMessage("tool_use",
                                           toolUseContent(last'.ev.toolName[1],
                                                          last'.ev.toolInput[1]),
                                           last'.ev.toolName)
                       /\ currentTool' = None]_vars

\* A second tool call started while the first was open with accumulated input: the
\* second is the open one, its input is empty, and no tool_use entry was made.
C15_Witness ==
    /\ last.op = "event"
    /\ last.ev.type = "tool_use_start"
    /\ last.ev.toolInput = None
    /\ last.pre.currentTool # None
    /\ last.pre.toolInput # <<>>
    /\ currentTool = last.ev.toolName
    /\ toolInput = <<>>
    /\ ToolUseEntries(messages) = 0

\* The step is a call of handleSubmit; its argument is last'.arg.
SubmitStep ==
    /\ steps' = steps + 1
    /\ last'.op \in {"rejected_empty", "rejected_busy", "submitted"}

\* C16 (empty submission): a call of handleSubmit whose value is empty or made of
\* whitespace only leaves messages, input, isProcessing, streamingText, currentTool,
\* toolInput and sessionId unchanged and starts no stream.
C16_EmptySubmission ==
    [][(SubmitStep /\ \A k \in DOMAIN last'.arg : last'.arg[k] \in Whitespace)
         => UNCHANGED <<messages, input, isProcessing, streamingText, currentTool,
                        toolInput, sessionId, runs>>]_vars

\* A whitespace-only value was submitted while text was typed in the input and a
\* session id was recorded: the text is still there and nothing is in progress.
C16_Witness ==
    /\ last.op = "rejected_empty"
    /\ last.arg = <<" ">>
    /\ input # <<>>
    /\ sessionId # None
    /\ ~isProcessing
    /\ runs = <<>>

\* The error entries of the current exchange: those after the last user entry.
ErrorsOfExchange(msgs) ==
    Cardinality({k \in DOMAIN msgs :
                   /\ msgs[k].type = "error"
                   /\ \A j \in DOMAIN msgs : msgs[j].type = "user" => j < k})

\* C17 (single error entry, no retry): an exchange has at most one error entry; when
\* the SDK stream of a call has thrown, the generator is finished (it takes no further
\* item), and once its error event is handled the transcript ends with exactly one
\* error entry for the exchange, carrying the exception's message, and all that is
\* left for the call is to end: until then no step reads the SDK stream again or
\* calls runHatch; a call of runHatch is made only by an accepted submission.
C17_SingleErrorNoRetry ==
    [][/\ ErrorsOfExchange(messages') <= 1
       /\ Accepted => last'.op = "submitted" /\ Len(runs') = 1
       /\ (\E i \in DOMAIN runs : runs[i].thrown # None)
            => last'.op \notin {"item", "end", "throw", "submitted"}
       /\ \A i \in DOMAIN runs' :
            runs'[i].thrown # None
              => /\ runs'[i].gen = "finished"
                 /\ IF runs'[i].pending = <<>>
                    THEN /\ ErrorsOfExchange(messages') = 1
                         /\ messages'[Len(messages')] =
                              DisplayMessage("error", runs'[i].thrown[1].message, None)
                    ELSE ErrorsOfExchange(messages') = 0]_vars

\* The SDK stream threw during a second exchange; its one error entry is the last
\* entry and the call has ended.
C17_Witness ==
    /\ last.op = "idle"
    /\ runs = <<>>
    /\ UserEntries(messages) = 2
    /\ messages[Len(messages)].type = "error"
    /\ ErrorsOfExchange(messages) = 1

\* Two names that differ at most in the case of their ASCII letters.
SameName(a, b) ==
    /\ Len(a) = Len(b)
    /\ \A i \in 1..Len(a) :
         \/ a[i] = b[i]
         \/ \E k \in 1..26 : {a[i], b[i]} = {UpperLetters[k], LowerLetters[k]}

\* C18 (tool display formatting): formatToolDisplay returns a label and a detail for
\* every name and input record.  For a name that is a known tool name in any casing
\* the result is the one every other casing of the name gives on the same input, and
\* its label is not the generic one; for every other name the result is the generic
\* label holding the name as given, with an empty detail.
C18_ToolDisplayFormatting ==
    fout # None
      => LET name == fcall[1].name
             inp == fcall[1].inp
             out == fout[1]
         IN /\ DOMAIN out = {"label", "detail"}
            /\ IF \E s \in KnownToolNames : SameName(name, s)
               THEN /\ \A m \in FormatNames :
                         SameName(m, name) => formatToolDisplay(m, inp) = out
                    /\ out.label[1] # "(gear)"
               ELSE out = [label |-> <<"(gear)", " ">> \o name, detail |-> <<>>]

\* formatToolDisplay was called with the name in capitals and an empty input record.
C18_Witness ==
    /\ fout # None
    /\ fcall[1].name = <<"B", "A", "S", "H">>
    /\ fcall[1].inp = Input_empty
    /\ fout[1] = [label |-> <<"Running">>, detail |-> <<>>]

\* The event is the one runHatch derives from this content piece of a message.
PieceEvent(piece, ev) ==
    CASE piece.type = "text" -> ev.type = "text" /\ ev.text = Some(piece.text)
      [] piece.type = "tool_use" ->
           /\ ev.type = "tool_use_start"
           /\ ev.toolName = Some(piece.name)
           /\ ev.toolId = Some(piece.id)
           /\ ev.toolInput = Some(piece.input)
      [] piece.type = "tool_result" -> ev.type = "tool_result"
      [] OTHER -> FALSE

\* The events are those derived from the item, one per content piece and in the
\* order of the pieces; an item that is not a message gives at most one event.
ItemImage(item, evs) ==
    IF item.type \in {"assistant", "user"}
    THEN /\ Len(evs) = Len(item.content)
         /\ \A k \in DOMAIN evs : PieceEvent(item.content[k], evs[k])
    ELSE /\ Len(evs) <= 1
         /\ item.type = "result" => evs = <<>>
         /\ item.type = "system" => evs # <<>> /\ evs[1].type = "init"
         /\ item.type = "stream_event" =>
              /\ evs # <<>>
              /\ evs[1].type \in {"tool_use_start", "text_delta", "tool_input_delta"}

\* C19 (FIFO delivery): runHatch takes the next SDK item only when every event of
\* the items before it has been delivered; the events it then holds are the image of
\* that item, in the order of the item's content pieces; the consumer is handed the
\* oldest undelivered event, which is removed, the rest keeping their order; the
\* terminal event is added only behind everything else; no other step touches the
\* undelivered events.
C19_FifoDelivery ==
    [][\A i \in DOMAIN runs :
         LET old == runs[i].pending
         IN CASE last'.op = "item" /\ steps' = steps + 1 ->
                   /\ old = <<>>
                   /\ ItemImage(last'.arg, runs'[i].pending)
              [] last'.op = "event" ->
                   /\ old # <<>>
                   /\ last'.ev = Head(old)
                   /\ runs'[i].pending = Tail(old)
              [] last'.op \in {"end", "throw"} ->
                   /\ old = <<>>
                   /\ Len(runs'[i].pending) = 1
                   /\ IsTerminal(runs'[i].pending[1])
              [] last'.op = "idle" -> old = <<>> /\ runs' = <<>>
              [] OTHER -> runs' = runs]_vars

\* The first event of a two-piece assistant message (its text) has been delivered
\* and the second (its tool call) is the next one.
C19_Witness ==
    /\ last.op = "event"
    /\ last.ev.type = "text"
    /\ \E i \in DOMAIN runs :
         /\ Len(runs[i].pending) = 1
         /\ runs[i].pending[1].type = "tool_use_start"
         /\ runs[i].pending[1].toolName = Some(Name_Frob)

\* Nothing is in progress: the input is shown again and handleSubmit accepts a
\* non-empty value.
Idle ==
    /\ runs = <<>>
    /\ ~isProcessing
    /\ streamingText = <<>>
    /\ currentTool = None
    /\ toolInput = <<>>
    /\ ~rejects(<<"h">>)

\* C20 (return to idle): whenever the stream of an accepted submission has
\* terminated (the generator has yielded done, or error after an exception of the
\* SDK stream, or was closed by an exception in the loop body), the call eventually
\* reaches its end: isProcessing is false, the three in-progress fields are empty,
\* and a non-empty submission is accepted again.
C20_ReturnToIdle ==
    (\E i \in DOMAIN runs : runs[i].gen \in {"finished", "closed"}) ~> Idle

\* An exchange ended by an exception of the SDK stream, and the next submission was
\* accepted.
C20_Witness ==
    /\ last.op = "submitted"
    /\ UserEntries(messages) = 2
    /\ Len(messages) = 3
    /\ messages[2].type = "error"
    /\ isProcessing

\* C21 (buffer-only events leave the transcript untouched): handling a text_delta
\* changes streamingText only (the fragment is appended to it), handling a
\* tool_input_delta changes toolInput only (the fragment is appended to it), and
\* handling an init changes sessionId only (it becomes the event's id); messages,
\* input and isProcessing are unchanged by all three.
C21_BufferOnlyEvents ==
    [][/\ EventStep("text_delta")
            => /\ streamingText' = streamingText \o last'.ev.text[1]
               /\ UNCHANGED <<messages, input, isProcessing, sessionId, currentTool,
                              toolInput>>
       /\ EventStep("tool_input_delta")
            => /\ toolInput' = toolInput \o last'.ev.toolInputDelta[1]
               /\ UNCHANGED <<messages, input, isProcessing, sessionId, currentTool,
                              streamingText>>
       /\ EventStep("init")
            => /\ sessionId' = last'.ev.sessionId
               /\ UNCHANGED <<messages, input, isProcessing, streamingText, currentTool,
                              toolInput>>]_vars

\* A text fragment was handled while a tool call was open: the buffer holds it, the
\* tool call is still open, and the transcript holds the user entry only.
C21_Witness ==
    /\ last.op = "event"
    /\ last.ev.type = "text_delta"
    /\ last.pre.currentTool # None
    /\ last.pre.streamingText = <<>>
    /\ streamingText # <<>>
    /\ currentTool = last.pre.currentTool
    /\ Len(messages) = 1

\* C22 (one tool_use entry per tool call under partial-message streaming): the
\* tool_use_start without input that opens a call and the tool_input_delta events
\* that follow add no tool_use entry; the tool_use_start with input that completes
\* the call while it is open adds exactly one, that of the completed call, and
\* leaves currentTool null and toolInput empty.
C22_OneEntryPerToolCall ==
    [][/\ (EventStep("tool_use_start") /\ last'.ev.toolInput = None)
            => /\ ToolUseEntries(messages') = ToolUseEntries(messages)
               /\ currentTool' = last'.ev.toolName
       /\ EventStep("tool_input_delta")
            => /\ ToolUseEntries(messages') = ToolUseEntries(messages)
               /\ currentTool' = currentTool
       /\ (EventStep("tool_use_start") /\ last'.ev.toolInput # None /\ currentTool # None)
            => /\ ToolUseEntries(messages') = ToolUseEntries(messages) + 1
               /\ messages'[Len(messages')].type = "tool_use"
               /\ messages'[Len(messages')].toolName = last'.ev.toolName
               /\ currentTool' = None
               /\ toolInput' = <<>>]_vars

\* The call t1 of Bash was opened without input, received an input fragment and was
\* completed by the assistant message: the transcript holds one tool_use entry.
C22_Witness ==
    /\ last.op = "event"
    /\ last.ev.type = "tool_use_start"
    /\ last.ev.toolInput # None
    /\ last.ev.toolId = Some("t1")
    /\ last.pre.currentTool = Some(Name_Bash)
    /\ last.ev.toolName = Some(Name_Bash)
    /\ last.pre.toolInput # <<>>
    /\ ToolUseEntries(messages) = 1
    /\ currentTool = None
    /\ toolInput = <<>>

AssistantEntries(msgs) == Cardinality({k \in DOMAIN msgs : msgs[k].type = "assistant"})

\* C23 (one assistant entry per text block under partial-message streaming): a text
\* event that carries the full text of the block, handled after the block's
\* text_delta events, appends exactly one assistant entry, with that text, and
\* empties the buffer; a tool_use_start or done handled later, with nothing new in
\* the buffer, appends no assistant entry.
C23_OneEntryPerTextBlock ==
    [][/\ (EventStep("text") /\ Truthy(last'.ev.text))
            => /\ messages' = Append(messages, Assistant(last'.ev.text[1]))
               /\ streamingText' = <<>>
       /\ ((EventStep("tool_use_start") \/ EventStep("done")) /\ streamingText = <<>>)
            => /\ AssistantEntries(messages') = AssistantEntries(messages)
               /\ streamingText' = <<>>]_vars

\* The block "ab" was streamed as two fragments and completed by the text event of
\* an assistant message whose second piece is a tool call; after the tool_use_start
\* the transcript holds the user entry, one assistant entry and the tool call.
C23_Witness ==
    /\ last.op = "event"
    /\ last.ev.type = "tool_use_start"
    /\ steps = 4
    /\ Len(messages) = 3
    /\ messages[2] = Assistant(<<"a", "b">>)
    /\ messages[3].type = "tool_use"
    /\ AssistantEntries(messages) = 1
    /\ streamingText = <<>>

\* C24 (idle invariant): in every state in which isProcessing is false,
\* streamingText is empty, currentTool is null and toolInput is empty; isProcessing
\* is false exactly when no call of handleSubmit is consuming a stream.
C24_IdleInvariant ==
    /\ ~isProcessing => streamingText = <<>> /\ currentTool = None /\ toolInput = <<>>
    /\ isProcessing <=> runs # <<>>

\* An exchange ended while text was in the buffer and a tool call was open: both
\* are gone.
C24_Witness ==
    /\ last.op = "idle"
    /\ last.pre.streamingText # <<>>
    /\ last.pre.currentTool # None
    /\ ~isProcessing
    /\ streamingText = <<>>
    /\ currentTool = None

\* c is v without the whitespace at its two ends.
Trimmed(v, c) ==
    \E a, b \in 0..Len(v) :
      /\ a + b <= Len(v)
      /\ c = SubSeq(v, a + 1, Len(v) - b)
      /\ \A k \in 1..a : v[k] \in Whitespace
      /\ \A k \in (Len(v) - b + 1)..Len(v) : v[k] \in Whitespace
      /\ c # <<>> => c[1] \notin Whitespace /\ c[Len(c)] \notin Whitespace

\* C25 (user entry first): an accepted submission is made when no exchange is in
\* progress and appends exactly one entry, a user entry whose content is the
\* trimmed value, behind every entry of the exchanges before it; every other step
\* keeps the entries in place, adds no user entry, and adds an entry only while the
\* exchange is in progress, so behind its user entry.
C25_UserEntryFirst ==
    [][IF Accepted
       THEN /\ runs = <<>>
            /\ Len(messages') = Len(messages) + 1
            /\ IsPrefix(messages, messages')
            /\ messages'[Len(messages')].type = "user"
            /\ Trimmed(last'.arg, messages'[Len(messages')].content)
            /\ runs'[1].userInput = messages'[Len(messages')].content
       ELSE /\ IsPrefix(messages, messages')
            /\ UserEntries(messages') = UserEntries(messages)
            /\ messages' # messages
                 => /\ runs # <<>>
                    /\ \E k \in DOMAIN messages :
                         /\ messages[k] = DisplayMessage("user", runs[1].userInput, None)
                         /\ \A j \in (k + 1)..Len(messages') : messages'[j].type # "user"
      ]_vars

\* A second submission, with blanks around its text, was accepted after an exchange
\* that produced an assistant entry: its user entry is the last one.
C25_Witness ==
    /\ last.op = "submitted"
    /\ last.arg = <<" ", "h", " ">>
    /\ Len(messages) = 3
    /\ messages[1].type = "user"
    /\ messages[2].type = "assistant"
    /\ messages[3] = DisplayMessage("user", <<"h">>, None)

\* C26 (empty tool result): a tool_result event whose text is empty leaves messages
\* as it is; one whose text is not empty appends exactly one entry, of type
\* tool_result; in both cases currentTool becomes null and toolInput empty, and
\* streamingText and sessionId are unchanged.
C26_EmptyToolResult ==
    [][EventStep("tool_result")
         => /\ IF last'.ev.toolResult[1] = <<>>
               THEN messages' = messages
               ELSE /\ IsPrefix(messages, messages')
                    /\ Len(messages') = Len(messages) + 1
                    /\ messages'[Len(messages')].type = "tool_result"
                    /\ messages'[Len(messages')].content # <<>>
            /\ currentTool' = None
            /\ toolInput' = <<>>
            /\ UNCHANGED <<streamingText, sessionId>>]_vars

\* A tool result with an empty text was handled while a tool call was open with
\* accumulated input: the transcript holds the user entry only, no call is open.
C26_Witness ==
    /\ last.op = "event"
    /\ last.ev.type = "tool_result"
    /\ last.ev.toolResult = Some(<<>>)
    /\ last.pre.currentTool # None
    /\ last.pre.toolInput # <<>>
    /\ currentTool = None
    /\ toolInput = <<>>
    /\ Len(messages) = 1

\* C27 (session id reported by done): a run starts with the sessionId argument as
\* its current id; a system/init item makes its session_id the current id and is
\* yielded as an init event carrying that id; no other item and no other step
\* changes the current id; the done event carries the current id, which is thus the
\* session_id of the last init item seen, or the argument when none was seen.
C27_SessionIdOfDone ==
    [][/\ Accepted
            => runs'[Len(runs')].currentSessionId = runs'[Len(runs')].closure.sessionId
       /\ \A i \in DOMAIN runs :
            CASE last'.op = "item" /\ steps' = steps + 1 ->
                   IF last'.arg.type = "system"
                   THEN /\ runs'[i].currentSessionId = Some(last'.arg.session_id)
                        /\ Len(runs'[i].pending) = 1
                        /\ runs'[i].pending[1].type = "init"
                        /\ runs'[i].pending[1].sessionId = runs'[i].currentSessionId
                   ELSE /\ runs'[i].currentSessionId = runs[i].currentSessionId
                        /\ \A k \in DOMAIN runs'[i].pending :
                             runs'[i].pending[k].type # "init"
              [] last'.op = "end" ->
                   /\ runs'[i].pending[1].type = "done"
                   /\ runs'[i].pending[1].sessionId = runs[i].currentSessionId
                   /\ runs'[i].currentSessionId = runs[i].currentSessionId
              [] last'.op = "idle" -> runs' = <<>>
              [] OTHER -> runs'[i].currentSessionId = runs[i].currentSessionId]_vars

\* A run resumed with the id s1 saw an init item with the id s2 and ended: its done
\* event carries s2.
C27_Witness ==
    /\ last.op = "end"
    /\ Len(runs) = 1
    /\ runs[1].closure.sessionId = Some("s1")
    /\ runs[1].pending[1].type = "done"
    /\ runs[1].pending[1].sessionId = Some("s2")

====
